---------------------------- MODULE Spec2Model ----------------------------
(***************************************************************************)
(* Model of shared/reporttypes.go (package reporttypes) and of the reach   *)
(* result persistence exercised by pipeline/reachaggregator_test.go.       *)
(*                                                                         *)
(* Go strings and byte slices are sequences of byte values (0..255); a     *)
(* string literal such as "AQ==" is written <<65, 81, 61, 61>>.  Map keys  *)
(* produced by strconv.Itoa are TLA+ strings.                              *)
(***************************************************************************)
EXTENDS Integers, Sequences, FiniteSets, TLC

VARIABLES report, record, line, files, written, call, ret

vars == <<report, record, line, files, written, call, ret>>

(***************************************************************************)
(* Bounds of the model.                                                    *)
(***************************************************************************)
MaxPayloads == 3     \* reports carry 0..MaxPayloads payload entries
MaxData == 2         \* wire records carry 0..MaxData ciphertext bytes
MaxKey == 3          \* reach results are keyed by 0..MaxKey

(***************************************************************************)
(* Protocol tags.                                                          *)
(***************************************************************************)
onepartyProtocol == "one-party"
mpcProtocol == "mpc"

(***************************************************************************)
(* Errors.  A Go error value is a record: its kind and the number it       *)
(* carries (the offset of a base64.CorruptInputError, the payload count of *)
(* the fmt.Errorf messages).  NoErr is the nil error.                      *)
(***************************************************************************)
NoErr == [kind |-> "nil", at |-> 0]
CorruptInputError(n) == [kind |-> "base64.CorruptInputError", at |-> n]
PayloadCountError(n) == [kind |-> "payload count", at |-> n]
ProtoError == [kind |-> "proto", at |-> 0]

\* F applied to the value of e, which is computed once
With(e, F(_)) == CHOOSE y \in {F(x) : x \in {e}} : TRUE

(***************************************************************************)
(* encoding/base64, StdEncoding: the standard alphabet with '=' padding,   *)
(* non-strict, '\r' and '\n' ignored, as used at the call sites.           *)
(***************************************************************************)
\* decodeMap of StdEncoding: the 6-bit value of an alphabet byte, 255 otherwise
DecodeMap(c) ==
    IF c >= 65 /\ c <= 90 THEN c - 65            \* 'A'..'Z'
    ELSE IF c >= 97 /\ c <= 122 THEN c - 71      \* 'a'..'z'
    ELSE IF c >= 48 /\ c <= 57 THEN c + 4        \* '0'..'9'
    ELSE IF c = 43 THEN 62                       \* '+'
    ELSE IF c = 47 THEN 63                       \* '/'
    ELSE 255

\* the alphabet byte of a 6-bit value
EncodeMap(v) ==
    IF v < 26 THEN v + 65
    ELSE IF v < 52 THEN v + 71
    ELSE IF v < 62 THEN v - 4
    ELSE IF v = 62 THEN 43
    ELSE 47

IsPad(c) == c = 61                               \* '='
IsNewline(c) == c \in {10, 13}                   \* '\n', '\r'

\* index of the first byte at or after si (0-based) that is no newline
RECURSIVE SkipNewlines(_, _)
SkipNewlines(src, si) ==
    IF si < Len(src) /\ IsNewline(src[si + 1])
    THEN SkipNewlines(src, si + 1)
    ELSE si

\* the dlen-1 bytes held by dlen 6-bit values (dlen in 2..4)
QuantumBytes(dbuf, dlen) ==
    LET d(i) == IF i <= Len(dbuf) THEN dbuf[i] ELSE 0
        val == d(1) * 262144 + d(2) * 4096 + d(3) * 64 + d(4)
        all == <<val \div 65536, (val \div 256) % 256, val % 256>>
    IN  SubSeq(all, 1, dlen - 1)

\* decodeQuantum: reads up to 4 alphabet bytes from src at si (0-based);
\* j values are already in dbuf.  Result: next index, bytes decoded, error.
RECURSIVE DecodeQuantum(_, _, _, _)
DecodeQuantum(src, si, j, dbuf) ==
    IF j = 4
    THEN [nsi |-> si, out |-> QuantumBytes(dbuf, 4), err |-> NoErr]
    ELSE IF si = Len(src)
    THEN IF j = 0
         THEN [nsi |-> si, out |-> <<>>, err |-> NoErr]
         ELSE [nsi |-> si, out |-> <<>>, err |-> CorruptInputError(si - j)]
    ELSE LET in == src[si + 1]
             si1 == si + 1
         IN  IF DecodeMap(in) # 255
             THEN DecodeQuantum(src, si1, j + 1, Append(dbuf, DecodeMap(in)))
             ELSE IF IsNewline(in)
             THEN DecodeQuantum(src, si1, j, dbuf)
             ELSE IF ~IsPad(in)
             THEN [nsi |-> si1, out |-> <<>>, err |-> CorruptInputError(si1 - 1)]
             ELSE IF j < 2
             THEN [nsi |-> si1, out |-> <<>>, err |-> CorruptInputError(si1 - 1)]
             ELSE LET k == SkipNewlines(src, si1)
                      \* with two values read, a second '=' is expected
                      short == j = 2 /\ k = Len(src)
                      wrong == j = 2 /\ k < Len(src) /\ ~IsPad(src[k + 1])
                      si2 == IF j = 2 THEN k + 1 ELSE si1
                      si3 == SkipNewlines(src, si2)
                  IN  IF short
                      THEN [nsi |-> k, out |-> <<>>,
                            err |-> CorruptInputError(Len(src))]
                      ELSE IF wrong
                      THEN [nsi |-> k, out |-> <<>>,
                            err |-> CorruptInputError(k - 1)]
                      ELSE [nsi |-> si3, out |-> QuantumBytes(dbuf, j),
                            err |-> IF si3 < Len(src)
                                    THEN CorruptInputError(si3)  \* trailing garbage
                                    ELSE NoErr]

\* Encoding.Decode: quantum after quantum, stopping at the first error
RECURSIVE Decode(_, _, _)
Decode(src, si, dst) ==
    IF si >= Len(src)
    THEN [data |-> dst, err |-> NoErr]
    ELSE With(DecodeQuantum(src, si, 0, <<>>),
              LAMBDA q :
                IF q.err # NoErr
                THEN [data |-> dst \o q.out, err |-> q.err]
                ELSE Decode(src, q.nsi, dst \o q.out))

\* base64.StdEncoding.DecodeString
DecodeString(s) == Decode(s, 0, <<>>)

\* Encoding.Encode from byte i (1-based): 3 bytes to 4 alphabet bytes, the
\* last group '=' padded
RECURSIVE Encode(_, _)
Encode(src, i) ==
    IF i > Len(src) THEN <<>>
    ELSE IF i = Len(src)
    THEN <<EncodeMap(src[i] \div 4), EncodeMap((src[i] % 4) * 16), 61, 61>>
    ELSE IF i + 1 = Len(src)
    THEN <<EncodeMap(src[i] \div 4),
           EncodeMap((src[i] % 4) * 16 + src[i + 1] \div 16),
           EncodeMap((src[i + 1] % 16) * 4), 61>>
    ELSE <<EncodeMap(src[i] \div 4),
           EncodeMap((src[i] % 4) * 16 + src[i + 1] \div 16),
           EncodeMap((src[i + 1] % 16) * 4 + src[i + 2] \div 64),
           EncodeMap(src[i + 2] % 64)>> \o Encode(src, i + 3)

\* base64.StdEncoding.EncodeToString
EncodeToString(src) == Encode(src, 1)

(***************************************************************************)
(* pb.AggregatablePayload and its wire form (proto.Marshal/Unmarshal):     *)
(* field 1 the StandardCiphertext message (its field 1 the data bytes),    *)
(* field 2 the shared-info string, field 3 the key id, each length-        *)
(* delimited; proto3 leaves out empty bytes and strings, and a nil         *)
(* message.                                                                *)
(***************************************************************************)
StandardCiphertext(data) == [nil |-> FALSE, Data |-> data]
NilCiphertext == [nil |-> TRUE, Data |-> <<>>]

AggregatablePayload(payload, sharedInfo, keyId) ==
    [Payload |-> payload, SharedInfo |-> sharedInfo, KeyId |-> keyId]

\* base-128 varint, least significant group first
RECURSIVE Varint(_)
Varint(n) ==
    IF n < 128 THEN <<n>> ELSE <<(n % 128) + 128>> \o Varint(n \div 128)

\* a length-delimited field: tag (field number * 8 + 2), length, bytes
LenField(num, bytes) == <<num * 8 + 2>> \o Varint(Len(bytes)) \o bytes

\* a bytes or string field, left out when empty
OptField(num, bytes) == IF Len(bytes) = 0 THEN <<>> ELSE LenField(num, bytes)

ProtoMarshal(m) ==
    [data |-> (IF m.Payload.nil THEN <<>>
               ELSE LenField(1, OptField(1, m.Payload.Data)))
              \o OptField(2, m.SharedInfo)
              \o OptField(3, m.KeyId),
     err |-> NoErr]

\* reads a varint of b at i (1-based): its value, the index after it
RECURSIVE ReadVarint(_, _, _, _)
ReadVarint(b, i, shift, acc) ==
    IF i > Len(b) THEN [ok |-> FALSE, val |-> 0, next |-> i]
    ELSE IF b[i] < 128
    THEN [ok |-> TRUE, val |-> acc + b[i] * shift, next |-> i + 1]
    ELSE ReadVarint(b, i + 1, shift * 128, acc + (b[i] - 128) * shift)

\* the length-delimited field of b at i: field number, bytes, next index
ReadField(b, i) ==
    LET tag == ReadVarint(b, i, 1, 0)
        len == ReadVarint(b, tag.next, 1, 0)
        ok == /\ tag.ok
              /\ tag.val % 8 = 2
              /\ tag.val \div 8 >= 1
              /\ len.ok
              /\ len.next + len.val - 1 <= Len(b)
    IN  [ok |-> ok,
         num |-> IF ok THEN tag.val \div 8 ELSE 0,
         bytes |-> IF ok THEN SubSeq(b, len.next, len.next + len.val - 1)
                   ELSE <<>>,
         next |-> IF ok THEN len.next + len.val ELSE i]

\* the StandardCiphertext message held by bytes b, merged into c
RECURSIVE UnmarshalCiphertext(_, _, _)
UnmarshalCiphertext(b, i, c) ==
    IF i > Len(b) THEN [msg |-> c, err |-> NoErr]
    ELSE With(ReadField(b, i),
              LAMBDA f :
                IF ~f.ok \/ f.num # 1
                THEN [msg |-> c, err |-> ProtoError]
                ELSE UnmarshalCiphertext(b, f.next, StandardCiphertext(f.bytes)))

\* the AggregatablePayload held by bytes b, merged into m
\* field f of an AggregatablePayload merged into m
MergeField(f, m) ==
    LET inner == UnmarshalCiphertext(f.bytes, 1,
                    IF m.Payload.nil THEN StandardCiphertext(<<>>)
                    ELSE m.Payload)
    IN  IF ~f.ok \/ f.num > 3
        THEN [msg |-> m, err |-> ProtoError]
        ELSE IF f.num = 1
        THEN [msg |-> [m EXCEPT !.Payload = inner.msg], err |-> inner.err]
        ELSE IF f.num = 2
        THEN [msg |-> [m EXCEPT !.SharedInfo = f.bytes], err |-> NoErr]
        ELSE [msg |-> [m EXCEPT !.KeyId = f.bytes], err |-> NoErr]

RECURSIVE UnmarshalFields(_, _, _)
UnmarshalFields(b, i, m) ==
    IF i > Len(b) THEN [msg |-> m, err |-> NoErr]
    ELSE With(ReadField(b, i),
              LAMBDA f :
                With(MergeField(f, m),
                     LAMBDA r :
                       IF r.err # NoErr
                       THEN [msg |-> m, err |-> r.err]
                       ELSE UnmarshalFields(b, f.next, r.msg)))

ProtoUnmarshal(b) ==
    UnmarshalFields(b, 1, AggregatablePayload(NilCiphertext, <<>>, <<>>))

(***************************************************************************)
(* The record codec.                                                       *)
(***************************************************************************)
\* SerializeAggregatablePayload encoding with base64.URLEncoding ('-', '_')
SerializeWithURLEncoding(encrypted) ==
    LET bEncrypted == ProtoMarshal(encrypted)
        std == EncodeToString(bEncrypted.data)
        url == [i \in 1..Len(std) |->
                  IF std[i] = 43 THEN 45 ELSE IF std[i] = 47 THEN 95 ELSE std[i]]
    IN  IF bEncrypted.err # NoErr
        THEN [line |-> <<>>, err |-> bEncrypted.err]
        ELSE [line |-> url, err |-> NoErr]

SerializeAggregatablePayload(encrypted) ==
    LET bEncrypted == ProtoMarshal(encrypted)
    IN  IF bEncrypted.err # NoErr
        THEN [line |-> <<>>, err |-> bEncrypted.err]
        ELSE [line |-> EncodeToString(bEncrypted.data), err |-> NoErr]

NilPayload == AggregatablePayload(NilCiphertext, <<>>, <<>>)

DeserializeAggregatablePayload(s) ==
    LET bsc == DecodeString(s)
        payload == ProtoUnmarshal(bsc.data)
    IN  IF bsc.err # NoErr
        THEN [isNil |-> TRUE, payload |-> NilPayload, err |-> bsc.err]
        ELSE IF payload.err # NoErr
        THEN [isNil |-> TRUE, payload |-> NilPayload, err |-> payload.err]
        ELSE [isNil |-> FALSE, payload |-> payload.msg, err |-> NoErr]

(***************************************************************************)
(* AggregatableReport and its methods.  A report is                        *)
(*   [SharedInfo, AggregationServicePayloads]                              *)
(* and a payload entry [Payload, KeyID, DebugCleartextPayload]; the        *)
(* report's other fields are read by no method.                            *)
(***************************************************************************)
\* GetProtocol taking every count above 1 for the two-party protocol
GetProtocolAtLeastTwo(r) ==
    LET n == Len(r.AggregationServicePayloads)
    IN  IF n = 1 THEN [protocol |-> onepartyProtocol, err |-> NoErr]
        ELSE IF n >= 2 THEN [protocol |-> mpcProtocol, err |-> NoErr]
        ELSE [protocol |-> "", err |-> PayloadCountError(n)]

GetProtocol(r) ==
    LET n == Len(r.AggregationServicePayloads)
    IN  IF n = 1 THEN [protocol |-> onepartyProtocol, err |-> NoErr]
        ELSE IF n = 2 THEN [protocol |-> mpcProtocol, err |-> NoErr]
        ELSE [protocol |-> "", err |-> PayloadCountError(n)]

Validate(r) ==
    LET got == Len(r.AggregationServicePayloads)
    IN  IF got # 1 /\ got # 2 THEN PayloadCountError(got) ELSE NoErr

\* IsDebugReport looking for a cleartext in any payload entry
IsDebugReportAnyPayload(r) ==
    IF Len(r.AggregationServicePayloads) = 0
    THEN [panic |-> TRUE, debug |-> FALSE]
    ELSE [panic |-> FALSE,
          debug |-> \E i \in 1..Len(r.AggregationServicePayloads) :
                      r.AggregationServicePayloads[i].DebugCleartextPayload # <<>>]

\* indexing an empty slice panics
IsDebugReport(r) ==
    IF Len(r.AggregationServicePayloads) = 0
    THEN [panic |-> TRUE, debug |-> FALSE]
    ELSE [panic |-> FALSE,
          debug |-> r.AggregationServicePayloads[1].DebugCleartextPayload # <<>>]

\* the loop body rejecting an empty base64 string
ExtractPayloadRejectsEmpty(r, payload, useCleartext) ==
    LET s == IF useCleartext THEN payload.DebugCleartextPayload
             ELSE payload.Payload
        dec == DecodeString(s)
        keyID == IF useCleartext THEN <<>> ELSE payload.KeyID
    IN  [err |-> IF s = <<>> THEN CorruptInputError(0) ELSE dec.err,
         rec |-> AggregatablePayload(StandardCiphertext(dec.data),
                                     r.SharedInfo, keyID)]

\* the loop body taking the cleartext of a debug payload on both channels
ExtractPayloadPrefersCleartext(r, payload, useCleartext) ==
    LET dec == IF useCleartext \/ payload.DebugCleartextPayload # <<>>
               THEN DecodeString(payload.DebugCleartextPayload)
               ELSE DecodeString(payload.Payload)
        keyID == IF useCleartext THEN <<>> ELSE payload.KeyID
    IN  [err |-> dec.err,
         rec |-> AggregatablePayload(StandardCiphertext(dec.data),
                                     r.SharedInfo, keyID)]

\* the loop body leaving the shared info out of cleartext records
ExtractPayloadDropsSharedInfo(r, payload, useCleartext) ==
    LET dec == IF useCleartext
               THEN DecodeString(payload.DebugCleartextPayload)
               ELSE DecodeString(payload.Payload)
        keyID == IF useCleartext THEN <<>> ELSE payload.KeyID
    IN  [err |-> dec.err,
         rec |-> AggregatablePayload(StandardCiphertext(dec.data),
                                     IF useCleartext THEN <<>> ELSE r.SharedInfo,
                                     keyID)]

\* the loop body setting the key id on both channels
ExtractPayloadKeepsKeyID(r, payload, useCleartext) ==
    LET dec == IF useCleartext
               THEN DecodeString(payload.DebugCleartextPayload)
               ELSE DecodeString(payload.Payload)
    IN  [err |-> dec.err,
         rec |-> AggregatablePayload(StandardCiphertext(dec.data),
                                     r.SharedInfo, payload.KeyID)]

\* the body of the extraction loop for one payload entry
ExtractPayload(r, payload, useCleartext) ==
    LET dec == IF useCleartext
               THEN DecodeString(payload.DebugCleartextPayload)
               ELSE DecodeString(payload.Payload)
        keyID == IF useCleartext THEN <<>> ELSE payload.KeyID
    IN  [err |-> dec.err,
         rec |-> AggregatablePayload(StandardCiphertext(dec.data),
                                     r.SharedInfo, keyID)]

RECURSIVE ExtractLoop(_, _, _, _)
ExtractLoop(r, useCleartext, i, output) ==
    IF i > Len(r.AggregationServicePayloads)
    THEN [records |-> output, err |-> NoErr]
    ELSE LET e == ExtractPayload(r, r.AggregationServicePayloads[i], useCleartext)
         IN  IF e.err # NoErr
             THEN [records |-> <<>>, err |-> e.err]
             ELSE ExtractLoop(r, useCleartext, i + 1, Append(output, e.rec))

ExtractPayloadsFromAggregatableReport(r, useCleartext) ==
    ExtractLoop(r, useCleartext, 1, <<>>)

\* strconv.Itoa for a non-negative int
RECURSIVE Itoa(_)
Itoa(n) ==
    LET digit == <<"0", "1", "2", "3", "4", "5", "6", "7", "8", "9">>
    IN  IF n < 10 THEN digit[n + 1] ELSE Itoa(n \div 10) \o digit[(n % 10) + 1]

\* the empty map[string]string
EmptyMap == [k \in {} |-> <<>>]

\* output[key] = value
MapPut(output, key, value) == (key :> value) @@ output

RECURSIVE ConvertLoop(_, _, _)
ConvertLoop(payloads, index, output) ==
    IF index >= Len(payloads)
    THEN [isNil |-> FALSE, map |-> output, err |-> NoErr]
    ELSE LET payload == SerializeAggregatablePayload(payloads[index + 1])
         IN  IF payload.err # NoErr
             THEN [isNil |-> TRUE, map |-> EmptyMap, err |-> payload.err]
             ELSE ConvertLoop(payloads, index + 1,
                              MapPut(output, Itoa(index), payload.line))

\* convertReport checking the payload count before it extracts
convertReportValidates(r, useCleartext) ==
    LET payloads == ExtractPayloadsFromAggregatableReport(r, useCleartext)
    IN  IF Validate(r) # NoErr
        THEN [isNil |-> TRUE, map |-> EmptyMap, err |-> Validate(r)]
        ELSE IF payloads.err # NoErr
        THEN [isNil |-> TRUE, map |-> EmptyMap, err |-> payloads.err]
        ELSE ConvertLoop(payloads.records, 0, EmptyMap)

\* the records extracted before the first payload that does not decode
RECURSIVE ExtractedBeforeError(_, _, _, _)
ExtractedBeforeError(r, useCleartext, i, output) ==
    IF i > Len(r.AggregationServicePayloads)
    THEN output
    ELSE LET e == ExtractPayload(r, r.AggregationServicePayloads[i], useCleartext)
         IN  IF e.err # NoErr
             THEN output
             ELSE ExtractedBeforeError(r, useCleartext, i + 1,
                                       Append(output, e.rec))

\* convertReport returning, with the error, the entries converted so far
convertReportKeepsPartial(r, useCleartext) ==
    LET payloads == ExtractPayloadsFromAggregatableReport(r, useCleartext)
        sofar == ConvertLoop(ExtractedBeforeError(r, useCleartext, 1, <<>>),
                             0, EmptyMap)
    IN  IF payloads.err # NoErr
        THEN [isNil |-> FALSE, map |-> sofar.map, err |-> payloads.err]
        ELSE ConvertLoop(payloads.records, 0, EmptyMap)

convertReport(r, useCleartext) ==
    LET payloads == ExtractPayloadsFromAggregatableReport(r, useCleartext)
    IN  IF payloads.err # NoErr
        THEN [isNil |-> TRUE, map |-> EmptyMap, err |-> payloads.err]
        ELSE ConvertLoop(payloads.records, 0, EmptyMap)

GetSerializedEncryptedRecords(r) == convertReport(r, FALSE)

GetSerializedCleartextRecords(r) == convertReport(r, TRUE)


(***************************************************************************)
(* Reach result persistence (pipeline/reachaggregator): a result file      *)
(* holds one line per key, the key, the verification and the count in      *)
(* decimal.                                                                *)
(***************************************************************************)
Keys == 0..MaxKey
ReachResult(verification, count) ==
    [Verification |-> verification, Count |-> count]
\* the results of the test, and one with two digits
ReachResults == {ReachResult(1, 2), ReachResult(4, 5), ReachResult(10, 5)}
ReachMaps == UNION {[ks -> ReachResults] : ks \in SUBSET Keys}
Destinations == {"reach_results"}
NoFile == [exists |-> FALSE, lines |-> {}]
EmptyResults == [k \in {} |-> ReachResult(0, 0)]

\* strconv.FormatUint(n, 10): the decimal digits of n
RECURSIVE FormatUint(_)
FormatUint(n) ==
    IF n < 10 THEN <<48 + n>> ELSE Append(FormatUint(n \div 10), 48 + (n % 10))

\* strconv.ParseUint(s, 10, 64) of a string of decimal digits
RECURSIVE ParseUint(_)
ParseUint(s) ==
    IF Len(s) = 0 THEN 0
    ELSE ParseUint(SubSeq(s, 1, Len(s) - 1)) * 10 + (s[Len(s)] - 48)

ReachLine(key, result) ==
    <<FormatUint(key), FormatUint(result.Verification), FormatUint(result.Count)>>

\* WriteReachResult appending to the lines the file already holds
WriteReachResultAppends(fs, result, filePath) ==
    [fs EXCEPT ![filePath] =
        [exists |-> TRUE,
         lines |-> fs[filePath].lines \cup
                   {ReachLine(k, result[k]) : k \in DOMAIN result}]]

WriteReachResult(fs, result, filePath) ==
    [fs EXCEPT ![filePath] =
        [exists |-> TRUE,
         lines |-> {ReachLine(k, result[k]) : k \in DOMAIN result}]]

ReadReachResult(fs, filePath) ==
    IF ~fs[filePath].exists
    THEN [isNil |-> TRUE, results |-> EmptyResults,
          err |-> [kind |-> "file", at |-> 0]]
    ELSE LET lines == fs[filePath].lines
             keys == {ParseUint(l[1]) : l \in lines}
             lineOf(k) == CHOOSE l \in lines : ParseUint(l[1]) = k
         IN  [isNil |-> FALSE,
              results |-> [k \in keys |->
                             ReachResult(ParseUint(lineOf(k)[2]),
                                         ParseUint(lineOf(k)[3]))],
              err |-> NoErr]

(***************************************************************************)
(* Inputs.                                                                 *)
(***************************************************************************)
\* payload: "AQ==", "A!==" (not in the alphabet), "AQ=" (short padding)
PayloadStrings == {<<65, 81, 61, 61>>, <<65, 33, 61, 61>>, <<65, 81, 61>>}
\* key_id: "", "k1"
KeyIDs == {<<>>, <<107, 49>>}
\* debug_cleartext_payload: "", "Ag==", "Ag" (no padding)
CleartextStrings == {<<>>, <<65, 103, 61, 61>>, <<65, 103>>}
\* shared_info: "SI", "{}"
SharedInfos == {<<83, 73>>, <<123, 125>>}

AggregationServicePayloads ==
    [Payload : PayloadStrings, KeyID : KeyIDs,
     DebugCleartextPayload : CleartextStrings]

\* the entries a report carries beyond the two a valid report has
ExtraPayloads ==
    {[Payload |-> <<65, 81, 61, 61>>, KeyID |-> <<107, 49>>,
      DebugCleartextPayload |-> <<65, 103, 61, 61>>],
     [Payload |-> <<65, 81, 61, 61>>, KeyID |-> <<107, 49>>,
      DebugCleartextPayload |-> <<>>],
     [Payload |-> <<65, 81, 61>>, KeyID |-> <<>>,
      DebugCleartextPayload |-> <<65, 103>>]}

\* the reports with n payload entries
ReportsOf(n) ==
    LET m == IF n < 2 THEN n ELSE 2
    IN  [SharedInfo : SharedInfos,
         AggregationServicePayloads :
            {head \o tail : head \in [1..m -> AggregationServicePayloads],
                            tail \in [1..(n - m) -> ExtraPayloads]}]

\* wire records: ciphertext bytes over {0, 1, 255}, absent or present
DataBytes == UNION {[1..n -> {0, 1, 255}] : n \in 0..MaxData}
WireRecords ==
    {AggregatablePayload(c, si, k) :
        c \in {NilCiphertext} \cup {StandardCiphertext(d) : d \in DataBytes},
        si \in SharedInfos \cup {<<>>},
        k \in KeyIDs}

\* transport strings handed to the decoder: "", "AQ==", "A!==", "CgA=", "EgFT"
Lines == {<<>>, <<65, 81, 61, 61>>, <<65, 33, 61, 61>>,
          <<67, 103, 65, 61>>, <<69, 103, 70, 84>>}

(***************************************************************************)
(* State.  call is the last operation and its arguments, ret its results.  *)
(***************************************************************************)
NoCall == [op |-> "none", useCleartext |-> FALSE, text |-> <<>>,
           roundTrip |-> FALSE, dest |-> ""]
NoRet == [err |-> NoErr, panic |-> FALSE, protocol |-> "", debug |-> FALSE,
          records |-> <<>>, isNil |-> TRUE, map |-> EmptyMap,
          text |-> <<>>, payload |-> NilPayload, results |-> EmptyResults]
NoLine == [written |-> FALSE, text |-> <<>>]
NoReport == [SharedInfo |-> <<>>, AggregationServicePayloads |-> <<>>]

Init ==
    /\ \E n \in 0..MaxPayloads : report \in ReportsOf(n)
    /\ record = NilPayload
    /\ line = NoLine
    /\ files = [d \in Destinations |-> NoFile]
    /\ written = [d \in Destinations |-> EmptyResults]
    /\ call = NoCall
    /\ ret = NoRet

CallGetProtocol ==
    /\ call' = [NoCall EXCEPT !.op = "GetProtocol"]
    /\ ret' = [NoRet EXCEPT !.protocol = GetProtocol(report).protocol,
                            !.err = GetProtocol(report).err]
    /\ UNCHANGED <<report, record, line, files, written>>

CallValidate ==
    /\ call' = [NoCall EXCEPT !.op = "Validate"]
    /\ ret' = [NoRet EXCEPT !.err = Validate(report)]
    /\ UNCHANGED <<report, record, line, files, written>>

CallIsDebugReport ==
    /\ call' = [NoCall EXCEPT !.op = "IsDebugReport"]
    /\ ret' = [NoRet EXCEPT !.panic = IsDebugReport(report).panic,
                            !.debug = IsDebugReport(report).debug]
    /\ UNCHANGED <<report, record, line, files, written>>

CallExtractPayloads ==
    \E useCleartext \in BOOLEAN :
        LET out == ExtractPayloadsFromAggregatableReport(report, useCleartext)
        IN  /\ call' = [NoCall EXCEPT !.op = "ExtractPayloads",
                                      !.useCleartext = useCleartext]
            /\ ret' = [NoRet EXCEPT !.records = out.records, !.err = out.err]
            /\ UNCHANGED <<report, record, line, files, written>>

CallGetSerializedEncryptedRecords ==
    LET out == GetSerializedEncryptedRecords(report)
    IN  /\ call' = [NoCall EXCEPT !.op = "GetSerializedEncryptedRecords"]
        /\ ret' = [NoRet EXCEPT !.isNil = out.isNil, !.map = out.map,
                                !.err = out.err]
        /\ UNCHANGED <<report, record, line, files, written>>

CallGetSerializedCleartextRecords ==
    LET out == GetSerializedCleartextRecords(report)
    IN  /\ call' = [NoCall EXCEPT !.op = "GetSerializedCleartextRecords",
                                  !.useCleartext = TRUE]
        /\ ret' = [NoRet EXCEPT !.isNil = out.isNil, !.map = out.map,
                                !.err = out.err]
        /\ UNCHANGED <<report, record, line, files, written>>

Next ==
    \/ CallGetProtocol
    \/ CallValidate
    \/ CallIsDebugReport
    \/ CallExtractPayloads
    \/ CallGetSerializedEncryptedRecords
    \/ CallGetSerializedCleartextRecords

Spec == Init /\ [][Next]_vars

(***************************************************************************)
(* The record codec on its own: a wire record is serialized into line,     *)
(* and a line (the one written, or any transport string) is deserialized.  *)
(***************************************************************************)
InitCodec ==
    /\ report = NoReport
    /\ record \in WireRecords
    /\ line = NoLine
    /\ files = [d \in Destinations |-> NoFile]
    /\ written = [d \in Destinations |-> EmptyResults]
    /\ call = NoCall
    /\ ret = NoRet

CallSerialize ==
    LET out == SerializeAggregatablePayload(record)
    IN  /\ call' = [NoCall EXCEPT !.op = "Serialize"]
        /\ ret' = [NoRet EXCEPT !.text = out.line, !.err = out.err]
        /\ line' = IF out.err = NoErr
                   THEN [written |-> TRUE, text |-> out.line]
                   ELSE line
        /\ UNCHANGED <<report, record, files, written>>

DeserializeText(s, roundTrip) ==
    LET out == DeserializeAggregatablePayload(s)
    IN  /\ call' = [NoCall EXCEPT !.op = "Deserialize", !.text = s,
                                  !.roundTrip = roundTrip]
        /\ ret' = [NoRet EXCEPT !.isNil = out.isNil, !.payload = out.payload,
                                !.err = out.err]
        /\ UNCHANGED <<report, record, line, files, written>>

CallDeserialize ==
    \/ line.written /\ DeserializeText(line.text, TRUE)
    \/ \E s \in Lines : DeserializeText(s, FALSE)

NextCodec ==
    \/ CallSerialize
    \/ CallDeserialize

SpecCodec == InitCodec /\ [][NextCodec]_vars

(***************************************************************************)
(* Reach result persistence on its own.                                    *)
(***************************************************************************)
InitReach ==
    /\ report = NoReport
    /\ record = NilPayload
    /\ line = NoLine
    /\ files = [d \in Destinations |-> NoFile]
    /\ written = [d \in Destinations |-> EmptyResults]
    /\ call = NoCall
    /\ ret = NoRet

CallWriteReachResult ==
    \E result \in ReachMaps, filePath \in Destinations :
        /\ files' = WriteReachResult(files, result, filePath)
        /\ written' = [written EXCEPT ![filePath] = result]
        /\ call' = [NoCall EXCEPT !.op = "WriteReachResult", !.dest = filePath]
        /\ ret' = NoRet
        /\ UNCHANGED <<report, record, line>>

CallReadReachResult ==
    \E filePath \in Destinations :
        LET out == ReadReachResult(files, filePath)
        IN  /\ call' = [NoCall EXCEPT !.op = "ReadReachResult",
                                      !.dest = filePath]
            /\ ret' = [NoRet EXCEPT !.isNil = out.isNil,
                                    !.results = out.results, !.err = out.err]
            /\ UNCHANGED <<report, record, line, files, written>>

NextReach ==
    \/ CallWriteReachResult
    \/ CallReadReachResult

SpecReach == InitReach /\ [][NextReach]_vars


(***************************************************************************)
(* Properties of the report methods, checked under Spec.                   *)
(***************************************************************************)
NumPayloads == Len(report.AggregationServicePayloads)
ValidCount == NumPayloads \in {1, 2}
Serializing ==
    call.op \in {"GetSerializedEncryptedRecords", "GetSerializedCleartextRecords"}

\* the base64 string of payload entry i that the last call decoded
Selected(i) ==
    IF call.useCleartext
    THEN report.AggregationServicePayloads[i].DebugCleartextPayload
    ELSE report.AggregationServicePayloads[i].Payload
Malformed(s) == DecodeString(s).err # NoErr
SomeMalformed == \E i \in 1..NumPayloads : Malformed(Selected(i))
FirstMalformed ==
    CHOOSE i \in 1..NumPayloads :
        /\ Malformed(Selected(i))
        /\ \A j \in 1..(i - 1) : ~Malformed(Selected(j))

\* C1: GetProtocol returns "one-party" for exactly 1 payload and "mpc" for
\* exactly 2, whatever the fields hold; for every other count GetProtocol
\* and Validate return an error; Validate returns no error exactly when the
\* count is 1 or 2.
C1_ProtocolByCount ==
    /\ call.op = "GetProtocol" =>
        /\ NumPayloads = 1 => ret.protocol = "one-party" /\ ret.err = NoErr
        /\ NumPayloads = 2 => ret.protocol = "mpc" /\ ret.err = NoErr
        /\ ~ValidCount => ret.err # NoErr /\ ret.protocol = ""
    /\ call.op = "Validate" => (ret.err = NoErr <=> ValidCount)

C1_Witness ==
    /\ call.op = "GetProtocol"
    /\ NumPayloads = 3
    /\ ret.err # NoErr

\* C2 as stated: a report whose payload count is outside {1,2} gets an error
\* and no map from GetSerializedEncryptedRecords and
\* GetSerializedCleartextRecords.
C2_Original ==
    (Serializing /\ ~ValidCount) => (ret.err # NoErr /\ ret.isNil)

\* C2 amended: GetSerializedEncryptedRecords and
\* GetSerializedCleartextRecords do not check the payload count.  For a
\* report whose count is outside {1,2} they return an error and no map
\* exactly when some payload's selected base64 string is malformed, and
\* otherwise no error and a map with one entry per payload (the empty map
\* for zero payloads); only Validate and GetProtocol reject the count.
C2_CountNotChecked ==
    (Serializing /\ ~ValidCount) =>
        IF SomeMalformed
        THEN ret.err # NoErr /\ ret.isNil /\ DOMAIN ret.map = {}
        ELSE /\ ret.err = NoErr
             /\ ~ret.isNil
             /\ Cardinality(DOMAIN ret.map) = NumPayloads
             /\ Validate(report) # NoErr

C2_Witness ==
    /\ call.op = "GetSerializedEncryptedRecords"
    /\ NumPayloads = 3
    /\ ret.err = NoErr
    /\ Cardinality(DOMAIN ret.map) = 3

\* C3 as stated: GetSerializedCleartextRecords on a report with a payload
\* whose debugCleartextPayload is empty fails with a decode error and
\* returns no map.
C3_Original ==
    (/\ call.op = "GetSerializedCleartextRecords"
     /\ \E i \in 1..NumPayloads : Selected(i) = <<>>)
        => (ret.err.kind = "base64.CorruptInputError" /\ ret.isNil)

\* C3 amended: an empty debugCleartextPayload decodes to zero bytes.
\* GetSerializedCleartextRecords on a report with a payload whose
\* debugCleartextPayload is empty fails only when another payload's
\* debugCleartextPayload is malformed base64; otherwise it returns no error
\* and a map in which the entry of each such payload deserializes to a
\* record with zero-length payload bytes and an empty key id.
C3_EmptyCleartextDecodes ==
    (/\ call.op = "GetSerializedCleartextRecords"
     /\ \E i \in 1..NumPayloads : Selected(i) = <<>>)
        => IF \E i \in 1..NumPayloads :
                    Selected(i) # <<>> /\ Malformed(Selected(i))
           THEN ret.err.kind = "base64.CorruptInputError" /\ ret.isNil
           ELSE /\ ret.err = NoErr
                /\ ~ret.isNil
                /\ \A i \in 1..NumPayloads :
                     Selected(i) = <<>> =>
                        LET d == DeserializeAggregatablePayload(
                                    ret.map[Itoa(i - 1)])
                        IN  /\ d.err = NoErr
                            /\ d.payload.Payload.Data = <<>>
                            /\ d.payload.KeyId = <<>>

C3_Witness ==
    /\ call.op = "GetSerializedCleartextRecords"
    /\ NumPayloads = 1
    /\ Selected(1) = <<>>
    /\ ret.err = NoErr
    /\ DOMAIN ret.map = {"0"}

C5_EncryptedMap ==
    (/\ call.op = "GetSerializedEncryptedRecords"
     /\ ValidCount
     /\ \A i \in 1..NumPayloads :
          ~Malformed(report.AggregationServicePayloads[i].Payload))
        => /\ ret.err = NoErr
           /\ ~ret.isNil
           /\ DOMAIN ret.map = (IF NumPayloads = 1 THEN {"0"} ELSE {"0", "1"})
           /\ \A i \in 1..NumPayloads :
                LET p == report.AggregationServicePayloads[i]
                    key == IF i = 1 THEN "0" ELSE "1"
                    d == DeserializeAggregatablePayload(ret.map[key])
                IN  /\ d.err = NoErr
                    /\ d.payload.Payload.Data = DecodeString(p.Payload).data
                    /\ d.payload.KeyId = p.KeyID
                    /\ d.payload.SharedInfo = report.SharedInfo
                    /\ ret.map[key] =
                         GetSerializedEncryptedRecords(
                           [report EXCEPT
                              !.AggregationServicePayloads[i].DebugCleartextPayload
                                 = <<>>]).map[key]
           \* payload "AQ==", key id "k1", shared info "SI": "CgMKAQESAlNJGgJrMQ=="
           /\ (/\ report.SharedInfo = <<83, 73>>
               /\ report.AggregationServicePayloads[1].Payload = <<65, 81, 61, 61>>
               /\ report.AggregationServicePayloads[1].KeyID = <<107, 49>>)
                => ret.map["0"] = <<67, 103, 77, 75, 65, 81, 69, 83, 65, 108,
                                    78, 74, 71, 103, 74, 114, 77, 81, 61, 61>>

C5_Witness ==
    /\ call.op = "GetSerializedEncryptedRecords"
    /\ NumPayloads = 2
    /\ Malformed(report.AggregationServicePayloads[2].DebugCleartextPayload)
    /\ report.AggregationServicePayloads[1].DebugCleartextPayload # <<>>
    /\ ret.err = NoErr
    /\ DOMAIN ret.map = {"0", "1"}

\* C6: every record ExtractPayloadsFromAggregatableReport produces, on
\* either channel and at every index, carries the report's sharedInfo
\* string unmodified.
C6_SharedInfoVerbatim ==
    call.op = "ExtractPayloads" =>
        \A i \in 1..Len(ret.records) :
            ret.records[i].SharedInfo = report.SharedInfo

C6_Witness ==
    /\ call.op = "ExtractPayloads"
    /\ call.useCleartext
    /\ Len(ret.records) = 2
    /\ ret.records[2].SharedInfo = <<123, 125>>

\* C7: when ExtractPayloadsFromAggregatableReport succeeds it returns one
\* record per payload entry in the original order; record i holds the
\* base64 decoding of payload i's selected field, and its keyId is payload
\* i's keyId on the encrypted channel and empty on the cleartext channel.
C7_OneRecordPerPayload ==
    (call.op = "ExtractPayloads" /\ ret.err = NoErr) =>
        /\ Len(ret.records) = NumPayloads
        /\ \A i \in 1..NumPayloads :
             /\ ~ret.records[i].Payload.nil
             /\ ret.records[i].Payload.Data = DecodeString(Selected(i)).data
             /\ ret.records[i].KeyId =
                  (IF call.useCleartext THEN <<>>
                   ELSE report.AggregationServicePayloads[i].KeyID)

C7_Witness ==
    /\ call.op = "ExtractPayloads"
    /\ call.useCleartext
    /\ ret.err = NoErr
    /\ Len(ret.records) = 2
    /\ report.AggregationServicePayloads[1].KeyID # <<>>
    /\ ret.records[1].Payload.Data = <<2>>
    /\ ret.records[2].Payload.Data = <<>>

\* C9: for a report with at least one payload, IsDebugReport returns true
\* exactly when payload 0's debugCleartextPayload is non-empty, whatever
\* payload 1 and the other fields hold.
C9_DebugFromFirstPayload ==
    (call.op = "IsDebugReport" /\ NumPayloads >= 1) =>
        /\ ~ret.panic
        /\ ret.debug =
             (report.AggregationServicePayloads[1].DebugCleartextPayload # <<>>)

C9_Witness ==
    /\ call.op = "IsDebugReport"
    /\ NumPayloads = 2
    /\ report.AggregationServicePayloads[1].DebugCleartextPayload = <<>>
    /\ report.AggregationServicePayloads[2].DebugCleartextPayload # <<>>
    /\ ~ret.debug

(***************************************************************************)
(* The round trip of the record codec, checked under SpecCodec.            *)
(***************************************************************************)
\* C8: for every well-formed wire record r, SerializeAggregatablePayload(r)
\* succeeds, and DeserializeAggregatablePayload of its result succeeds and
\* returns a record equal to r in payload bytes, sharedInfo and keyId.
C8_CodecRoundTrip ==
    /\ call.op = "Serialize" =>
         ret.err = NoErr /\ line = [written |-> TRUE, text |-> ret.text]
    /\ (call.op = "Deserialize" /\ call.roundTrip) =>
         /\ ret.err = NoErr
         /\ ~ret.isNil
         /\ ret.payload.Payload = record.Payload
         /\ ret.payload.SharedInfo = record.SharedInfo
         /\ ret.payload.KeyId = record.KeyId

C8_Witness ==
    /\ call.op = "Deserialize"
    /\ call.roundTrip
    /\ record = AggregatablePayload(StandardCiphertext(<<255, 1>>),
                                    <<83, 73>>, <<107, 49>>)
    /\ ret.payload = record

(***************************************************************************)
(* The round trip of the reach results, checked under SpecReach.           *)
(***************************************************************************)
\* C10: reading with ReadReachResult a destination written with
\* WriteReachResult succeeds and yields a mapping identical to the one
\* written: the same keys, and the same verification and count for each.
C10_ReachRoundTrip ==
    (call.op = "ReadReachResult" /\ files[call.dest].exists) =>
        /\ ret.err = NoErr
        /\ ~ret.isNil
        /\ DOMAIN ret.results = DOMAIN written[call.dest]
        /\ \A k \in DOMAIN ret.results :
             /\ ret.results[k].Verification = written[call.dest][k].Verification
             /\ ret.results[k].Count = written[call.dest][k].Count

C10_Witness ==
    /\ call.op = "ReadReachResult"
    /\ ret.err = NoErr
    /\ DOMAIN ret.results = {0, 3}
    /\ ret.results[0] = ReachResult(1, 2)
    /\ ret.results[3] = ReachResult(4, 5)

=============================================================================
